---------------------------- MODULE Spec2Model ----------------------------
(***************************************************************************)
(* callback-cell: a single-slot cell holding at most one pending one-shot  *)
(* callback.  Two variants are modelled, each from its own source file:    *)
(*   CallbackCell      (src/src/without_args.rs)  FnOnce()                 *)
(*   CallbackCellArgs  (src/src/with_args.rs)     FnOnce(I) -> O           *)
(* A behaviour fixes the variant in its initial state.  Every shared       *)
(* memory access (the atomic swap, a read through a raw pointer, a         *)
(* deallocation) and every entry into and return from user code is a step  *)
(* of its own, so threads interleave at exactly those points.              *)
(***************************************************************************)
EXTENDS Integers, Sequences, FiniteSets

\* ------------------------------------------------------------- bounds
NumThreads == 2
MaxEnv == 2
HistLen == 3

Threads == 1..NumThreads
Envs == 1..MaxEnv
\* std::ptr::null_mut()
Null == 0
\* the thread that runs the single-threaded scenarios
Main == CHOOSE t \in Threads : \A u \in Threads : t <= u
\* the callbacks a caller may put, and the inputs thread t may pass to take_call
Actions == {"inc", "neg"}
Inputs(t) == {2 * t, 2 * t + 1}

VARIABLES
    variant,    \* which cell type this behaviour is about
    slot,       \* the AtomicPtr: Null or an envelope
    destroyed,  \* the cell has been dropped
    nextEnv,    \* number of envelopes allocated so far (Box::new)
    action,     \* action[e]: the `tail` field of envelope e
    invoked,    \* invoked[e]: times e's callback was called
    disposed,   \* disposed[e]: times e's callback was dropped uncalled
    freed,      \* freed[e]: times e's heap allocation was deallocated
    call,       \* call[t]: the function thread t is executing
    pc,         \* pc[t]: where in it
    ptr,        \* ptr[t]: local `ptr` of put / take_call
    old_ptr,    \* old_ptr[t]: local `old_ptr` of put; the argument of drop_raw
    bx,         \* bx[t]: the envelope fn_ptr_impl was called with
    run,        \* run[t]: the mode fn_ptr_impl was called with
    callee,     \* callee[t]: the callback this call moved out of its envelope
                \* and called
    arg,        \* arg[t]: the input that callback was called with
    input,      \* input[t]: take_call's `input`
    io_slot,    \* io_slot[t]: take_call's IoSlot union
    ret,        \* ret[t]: the value the current call returns
    fed,        \* fed[t]: the envelopes whose callback this call has invoked
    hist,       \* the calls made on the cell, latest last; kept only in runs
                \* that log them (it starts with the constructor's entry), and
                \* empty otherwise
    obs         \* an observer's record: what each call in progress has done so
                \* far, and the atomic Option<Box<dyn FnOnce>> register the cell
                \* stands for

vars == <<variant, slot, destroyed, nextEnv, action, invoked, disposed, freed,
          call, pc, ptr, old_ptr, bx, run, callee, arg, input, io_slot, ret,
          fed, hist, obs>>

heapVars == <<nextEnv, action, invoked, disposed, freed>>

NoInput == 0 - 1
NoRet == [kind |-> "-", val |-> 0]
NoIo == [tag |-> "-", val |-> 0]

\* the callbacks as functions I -> O
Apply(f, x) == IF f = "inc" THEN x + 1 ELSE 0 - x

Allocated(e) == e <= nextEnv
Live(e) == Allocated(e) /\ freed[e] = 0
LiveSet == {e \in Envs : Live(e)}
AllIdle == \A t \in Threads : pc[t] = "idle"

\* the register's value: the envelope it holds and that envelope's callback
RegOf(e, f) == [e |-> e, f |-> f]
None == RegOf(Null, "-")
\* a call's exchange has not happened yet
NotYet == RegOf(0 - 1, "-")

\* the observer's record before any call: an empty register, nothing claimed
\* or installed, and no call in progress
NoObs ==
    [ steps |-> [t \in Threads |-> 0],    \* steps the call of t has taken
      swaps |-> [t \in Threads |-> 0],    \* exchanges it has performed
      allocs |-> [t \in Threads |-> 0],   \* allocations it has made
      frees |-> [t \in Threads |-> 0],    \* deallocations it has made
      took |-> [t \in Threads |-> 0],     \* times it took the input out of io
      gave |-> [t \in Threads |-> <<>>],  \* envelopes whose callback it dropped
      f |-> [t \in Threads |-> "-"],      \* the callback passed to put
      got |-> [t \in Threads |-> NotYet], \* what its exchange on the register
                                          \* returned
      reg |-> None,                       \* the register
      claimed |-> {},                     \* envelopes an exchange has returned
      installed |-> {},                   \* envelopes an exchange has put in
      seen |-> [t \in Threads |-> {}] ]   \* what fmt could have been shown since
                                          \* its load

\* what fmt shows of a register value
Shown(r) == IF r.e = Null THEN "NULL" ELSE "NOT NULL"
\* the register takes value r while some threads are inside fmt
Seen(r) ==
    [u \in Threads |->
        IF obs.seen[u] = {} THEN {} ELSE obs.seen[u] \cup {Shown(r)}]

\* one more step of the call of thread t
Tick(t) == [obs EXCEPT !.steps[t] = @ + 1]

\* put allocates the envelope for f
ObsAlloc(t, f) ==
    [obs EXCEPT !.steps[t] = @ + 1, !.allocs[t] = @ + 1, !.f[t] = f]

\* put's exchange on the register: Some(f) goes in, the previous value comes out
ObsPut(t) ==
    [obs EXCEPT !.steps[t] = @ + 1, !.swaps[t] = @ + 1,
                !.got[t] = obs.reg,
                !.f[t] = "-",
                !.reg = RegOf(ptr[t], obs.f[t]),
                !.seen = Seen(RegOf(ptr[t], obs.f[t])),
                !.claimed = @ \cup ({obs.reg.e} \ {Null}),
                !.installed = @ \cup {ptr[t]}]

\* take_call's exchange on the register: None goes in, the previous value comes
\* out
ObsTake(t) ==
    [obs EXCEPT !.steps[t] = @ + 1, !.swaps[t] = @ + 1,
                !.got[t] = obs.reg,
                !.reg = None,
                !.seen = Seen(None),
                !.claimed = @ \cup ({obs.reg.e} \ {Null})]

\* fmt loads the slot
ObsLoad(t) == [obs EXCEPT !.steps[t] = @ + 1, !.seen[t] = {Shown(obs.reg)}]

\* drop takes the register's value through &mut self, without an exchange
ObsDrop(t) ==
    [obs EXCEPT !.steps[t] = @ + 1,
                !.got[t] = obs.reg,
                !.reg = None,
                !.claimed = @ \cup ({obs.reg.e} \ {Null})]

\* the call takes the input out of the overlay
ObsTook(t) == [obs EXCEPT !.steps[t] = @ + 1, !.took[t] = @ + 1]

\* the call drops the callback of envelope e without calling it
ObsGave(t, e) ==
    [obs EXCEPT !.steps[t] = @ + 1, !.got[t] = RegOf(@.e, "-"),
                !.gave[t] = Append(@, e)]

\* the call frees an envelope: the callback it claimed is gone by now, and so
\* is what the observer knew of it
ObsFree(t) ==
    [obs EXCEPT !.steps[t] = @ + 1, !.frees[t] = @ + 1,
                !.got[t] = RegOf(@.e, "-")]

\* the call of thread t is over
ObsReturn(t) ==
    [obs EXCEPT !.steps[t] = 0, !.swaps[t] = 0, !.allocs[t] = 0, !.frees[t] = 0,
                !.took[t] = 0, !.gave[t] = <<>>, !.f[t] = "-", !.got[t] = NotYet,
                !.seen[t] = {}]

\* no thread is inside a call
NoCalls ==
    /\ call = [t \in Threads |-> "-"]
    /\ pc = [t \in Threads |-> "idle"]
    /\ ptr = [t \in Threads |-> Null]
    /\ old_ptr = [t \in Threads |-> Null]
    /\ bx = [t \in Threads |-> Null]
    /\ run = [t \in Threads |-> "-"]
    /\ callee = [t \in Threads |-> "-"]
    /\ arg = [t \in Threads |-> NoInput]
    /\ input = [t \in Threads |-> NoInput]
    /\ io_slot = [t \in Threads |-> NoIo]
    /\ ret = [t \in Threads |-> NoRet]
    /\ fed = [t \in Threads |-> <<>>]

\* new(), lines 33-35 / 41-46: a null slot; nothing is allocated
new ==
    /\ variant \in {"CallbackCell", "CallbackCellArgs"}
    /\ slot = Null
    /\ destroyed = FALSE
    /\ nextEnv = 0
    /\ action = [e \in Envs |-> "-"]
    /\ invoked = [e \in Envs |-> 0]
    /\ disposed = [e \in Envs |-> 0]
    /\ freed = [e \in Envs |-> 0]

Init == new /\ NoCalls /\ hist = <<>> /\ obs = NoObs

\* one entry of hist: the call, the callback put, the input passed
Entry(op, f, x) == [op |-> op, f |-> f, x |-> x]

\* hist after one more call, keeping the latest HistLen entries
Log(e) ==
    IF hist = <<>> THEN hist
    ELSE IF Len(hist) < HistLen THEN Append(hist, e)
    ELSE Append(Tail(hist), e)

\* a call may start: the cell is alive and the thread is not inside a call
CanCall(t) == ~destroyed /\ pc[t] = "idle" /\ \A u \in Threads : call[u] # "drop"

\* swap as a compare-exchange against null: an occupied cell keeps its value,
\* which is returned all the same
swap_cas(cell, p) ==
    IF cell = Null THEN [old |-> cell, cell |-> p] ELSE [old |-> cell, cell |-> cell]

\* AtomicPtr::swap(p, AcqRel): one atomic read-modify-write
swap(cell, p) == [old |-> cell, cell |-> p]

\* the call's frame is popped and its locals are gone; a finished drop leaves
\* no cell behind
Return(t) ==
    /\ pc[t] = "ret"
    /\ destroyed' = (destroyed \/ call[t] = "drop")
    /\ call' = [call EXCEPT ![t] = "-"]
    /\ pc' = [pc EXCEPT ![t] = "idle"]
    /\ ptr' = [ptr EXCEPT ![t] = Null]
    /\ old_ptr' = [old_ptr EXCEPT ![t] = Null]
    /\ bx' = [bx EXCEPT ![t] = Null]
    /\ run' = [run EXCEPT ![t] = "-"]
    /\ callee' = [callee EXCEPT ![t] = "-"]
    /\ arg' = [arg EXCEPT ![t] = NoInput]
    /\ input' = [input EXCEPT ![t] = NoInput]
    /\ io_slot' = [io_slot EXCEPT ![t] = NoIo]
    /\ ret' = [ret EXCEPT ![t] = NoRet]
    /\ fed' = [fed EXCEPT ![t] = <<>>]
    /\ obs' = ObsReturn(t)
    /\ UNCHANGED <<variant, slot, heapVars>>

\* ============================================================ CallbackCell
\* put, lines 39-43: Box::new(CallbackCellInner { fn_ptr, tail: f }); into_raw
put_alloc(t, f) ==
    /\ variant = "CallbackCell"
    /\ CanCall(t)
    /\ nextEnv < MaxEnv
    /\ nextEnv' = nextEnv + 1
    /\ action' = [action EXCEPT ![nextEnv + 1] = f]
    /\ call' = [call EXCEPT ![t] = "put"]
    /\ pc' = [pc EXCEPT ![t] = "swap"]
    /\ ptr' = [ptr EXCEPT ![t] = nextEnv + 1]
    /\ hist' = Log(Entry("put", f, NoInput))
    /\ obs' = ObsAlloc(t, f)
    /\ UNCHANGED <<variant, slot, destroyed, invoked, disposed, freed, old_ptr,
                   bx, run, callee, arg, input, io_slot, ret, fed>>

\* put that empties the slot to get the old envelope and leaves installing the
\* new one for after the disposal
put_swap_late(t) ==
    /\ variant = "CallbackCell"
    /\ call[t] = "put" /\ pc[t] = "swap"
    /\ LET r == swap(slot, Null) IN
        /\ slot' = r.cell
        /\ old_ptr' = [old_ptr EXCEPT ![t] = r.old]
    /\ pc' = [pc EXCEPT ![t] = "drop_raw"]
    /\ obs' = ObsPut(t)
    /\ UNCHANGED <<variant, destroyed, heapVars, call, ptr, bx, run, callee,
                   arg, input, io_slot, ret, fed, hist>>

\* put_swap as a lock would do it: the exchange waits until the slot is empty
put_swap_waits(t) ==
    /\ variant = "CallbackCell"
    /\ call[t] = "put" /\ pc[t] = "swap"
    /\ slot = Null
    /\ LET r == swap(slot, ptr[t]) IN
        /\ slot' = r.cell
        /\ old_ptr' = [old_ptr EXCEPT ![t] = r.old]
    /\ pc' = [pc EXCEPT ![t] = "drop_raw"]
    /\ obs' = ObsPut(t)
    /\ UNCHANGED <<variant, destroyed, heapVars, call, ptr, bx, run, callee,
                   arg, input, io_slot, ret, fed, hist>>

\* put_swap with a plain store in place of the swap: the previous value of the
\* slot is never seen
put_store(t) ==
    /\ variant = "CallbackCell"
    /\ call[t] = "put" /\ pc[t] = "swap"
    /\ slot' = ptr[t]
    /\ old_ptr' = [old_ptr EXCEPT ![t] = Null]
    /\ pc' = [pc EXCEPT ![t] = "drop_raw"]
    /\ obs' = ObsPut(t)
    /\ UNCHANGED <<variant, destroyed, heapVars, call, ptr, bx, run, callee,
                   arg, input, io_slot, ret, fed, hist>>

\* put, line 46: let old_ptr = self.0.swap(ptr.cast(), AcqRel)
put_swap(t) ==
    /\ variant = "CallbackCell"
    /\ call[t] = "put" /\ pc[t] = "swap"
    /\ LET r == swap(slot, ptr[t]) IN
        /\ slot' = r.cell
        /\ old_ptr' = [old_ptr EXCEPT ![t] = r.old]
    /\ pc' = [pc EXCEPT ![t] = "drop_raw"]
    /\ obs' = ObsPut(t)
    /\ UNCHANGED <<variant, destroyed, heapVars, call, ptr, bx, run, callee,
                   arg, input, io_slot, ret, fed, hist>>

\* put that hands drop_raw the envelope it has just installed instead of the
\* one its swap returned
drop_raw_new(t) ==
    /\ variant = "CallbackCell"
    /\ call[t] \in {"put", "drop"} /\ pc[t] = "drop_raw"
    /\ LET p == IF call[t] = "put" THEN ptr[t] ELSE old_ptr[t] IN
        IF p # Null /\ freed[p] = 0 /\ action[p] \in Actions
         THEN /\ bx' = [bx EXCEPT ![t] = p]
              /\ run' = [run EXCEPT ![t] = "false"]
              /\ pc' = [pc EXCEPT ![t] = "fn_ptr_impl"]
         ELSE /\ pc' = [pc EXCEPT ![t] = "ret"]
              /\ UNCHANGED <<bx, run>>
    /\ obs' = Tick(t)
    /\ UNCHANGED <<variant, slot, destroyed, heapVars, call, ptr, old_ptr,
                   callee, arg, input, io_slot, ret, fed, hist>>

\* drop_raw that returns without calling fn_ptr
drop_raw_forget(t) ==
    /\ variant = "CallbackCell"
    /\ call[t] \in {"put", "drop"} /\ pc[t] = "drop_raw"
    /\ pc' = [pc EXCEPT ![t] = "ret"]
    /\ obs' = Tick(t)
    /\ UNCHANGED <<variant, slot, destroyed, heapVars, call, ptr, old_ptr, bx,
                   run, callee, arg, input, io_slot, ret, fed, hist>>

\* drop_raw, lines 95-102: if non-null, read fn_ptr and call fn_ptr(false, ptr)
drop_raw(t) ==
    /\ variant = "CallbackCell"
    /\ call[t] \in {"put", "drop"} /\ pc[t] = "drop_raw"
    /\ IF old_ptr[t] # Null
         THEN /\ bx' = [bx EXCEPT ![t] = old_ptr[t]]
              /\ run' = [run EXCEPT ![t] = "false"]
              /\ pc' = [pc EXCEPT ![t] = "fn_ptr_impl"]
         ELSE /\ pc' = [pc EXCEPT ![t] = "ret"]
              /\ UNCHANGED <<bx, run>>
    /\ obs' = Tick(t)
    /\ UNCHANGED <<variant, slot, destroyed, heapVars, call, ptr, old_ptr,
                   callee, arg, input, io_slot, ret, fed, hist>>

\* take_call_swap with a load in place of the swap: the slot keeps its value
take_call_load(t) ==
    /\ variant = "CallbackCell"
    /\ CanCall(t)
    /\ slot' = slot
    /\ ptr' = [ptr EXCEPT ![t] = slot]
    /\ IF slot # Null
         THEN /\ pc' = [pc EXCEPT ![t] = "call_fn"]
              /\ ret' = ret
         ELSE /\ pc' = [pc EXCEPT ![t] = "ret"]
              /\ ret' = [ret EXCEPT ![t] = [kind |-> "false", val |-> 0]]
    /\ call' = [call EXCEPT ![t] = "take_call"]
    /\ hist' = Log(Entry("take_call", "-", NoInput))
    /\ obs' = ObsTake(t)
    /\ UNCHANGED <<variant, destroyed, heapVars, old_ptr, bx, run, callee, arg,
                   input, io_slot, fed>>

\* take_call, lines 59-62 and 68-70: let ptr = self.0.swap(null_mut(), AcqRel);
\* a null ptr returns false
take_call_swap(t) ==
    /\ variant = "CallbackCell"
    /\ CanCall(t)
    /\ LET r == swap(slot, Null) IN
        /\ slot' = r.cell
        /\ ptr' = [ptr EXCEPT ![t] = r.old]
        /\ IF r.old # Null
             THEN /\ pc' = [pc EXCEPT ![t] = "call_fn"]
                  /\ ret' = ret
             ELSE /\ pc' = [pc EXCEPT ![t] = "ret"]
                  /\ ret' = [ret EXCEPT ![t] = [kind |-> "false", val |-> 0]]
    /\ call' = [call EXCEPT ![t] = "take_call"]
    /\ hist' = Log(Entry("take_call", "-", NoInput))
    /\ obs' = ObsTake(t)
    /\ UNCHANGED <<variant, destroyed, heapVars, old_ptr, bx, run, callee, arg,
                   input, io_slot, fed>>

\* take_call, lines 64-65: let fn_ptr = (*ptr).fn_ptr; fn_ptr(true, ptr)
take_call_fn(t) ==
    /\ variant = "CallbackCell"
    /\ call[t] = "take_call" /\ pc[t] = "call_fn"
    /\ bx' = [bx EXCEPT ![t] = ptr[t]]
    /\ run' = [run EXCEPT ![t] = "true"]
    /\ pc' = [pc EXCEPT ![t] = "fn_ptr_impl"]
    /\ obs' = Tick(t)
    /\ UNCHANGED <<variant, slot, destroyed, heapVars, call, ptr, old_ptr,
                   callee, arg, input, io_slot, ret, fed, hist>>

\* fn_ptr_impl, lines 84-89 with run = true: Box::from_raw; bx.tail is moved
\* out of the box and called
fn_ptr_impl_run(t) ==
    /\ variant = "CallbackCell"
    /\ pc[t] = "fn_ptr_impl" /\ run[t] = "true"
    /\ callee' = [callee EXCEPT ![t] = action[bx[t]]]
    /\ action' = [action EXCEPT ![bx[t]] = "moved"]
    /\ invoked' = [invoked EXCEPT ![bx[t]] = @ + 1]
    /\ fed' = [fed EXCEPT ![t] = Append(@, bx[t])]
    /\ pc' = [pc EXCEPT ![t] = "tail"]
    /\ obs' = Tick(t)
    /\ UNCHANGED <<variant, slot, destroyed, nextEnv, disposed, freed, call,
                   ptr, old_ptr, bx, run, arg, input, io_slot, ret, hist>>

\* fn_ptr_impl, line 89: the callback returns
tail_return(t) ==
    /\ variant = "CallbackCell"
    /\ pc[t] = "tail"
    /\ pc' = [pc EXCEPT ![t] = "free"]
    /\ obs' = Tick(t)
    /\ UNCHANGED <<variant, slot, destroyed, heapVars, call, ptr, old_ptr, bx,
                   run, callee, arg, input, io_slot, ret, fed, hist>>

\* fn_ptr_impl that calls the callback whatever `run` is
fn_ptr_impl_drop_calls(t) ==
    /\ variant = "CallbackCell"
    /\ pc[t] = "fn_ptr_impl" /\ run[t] = "false"
    /\ callee' = [callee EXCEPT ![t] = action[bx[t]]]
    /\ action' = [action EXCEPT ![bx[t]] = "moved"]
    /\ invoked' = [invoked EXCEPT ![bx[t]] = @ + 1]
    /\ fed' = [fed EXCEPT ![t] = Append(@, bx[t])]
    /\ pc' = [pc EXCEPT ![t] = "tail"]
    /\ obs' = Tick(t)
    /\ UNCHANGED <<variant, slot, destroyed, nextEnv, disposed, freed, call,
                   ptr, old_ptr, bx, run, arg, input, io_slot, ret, hist>>

\* fn_ptr_impl, lines 88-91 with run = false: bx goes out of scope with its
\* tail in place, so the callback is dropped without being called
fn_ptr_impl_drop(t) ==
    /\ variant = "CallbackCell"
    /\ pc[t] = "fn_ptr_impl" /\ run[t] = "false"
    /\ action' = [action EXCEPT ![bx[t]] = "dropped"]
    /\ disposed' = [disposed EXCEPT ![bx[t]] = @ + 1]
    /\ pc' = [pc EXCEPT ![t] = "free"]
    /\ obs' = ObsGave(t, bx[t])
    /\ UNCHANGED <<variant, slot, destroyed, nextEnv, invoked, freed, call, ptr,
                   old_ptr, bx, run, callee, arg, input, io_slot, ret, fed, hist>>

\* fn_ptr_impl that leaks the Box instead of freeing it
fn_free_leak(t) ==
    /\ variant = "CallbackCell"
    /\ pc[t] = "free"
    /\ pc' = [pc EXCEPT ![t] = "ret"]
    /\ ret' = IF call[t] = "take_call"
                THEN [ret EXCEPT ![t] = [kind |-> "true", val |-> 0]]
                ELSE ret
    /\ obs' = Tick(t)
    /\ UNCHANGED <<variant, slot, destroyed, heapVars, call, ptr, old_ptr, bx,
                   run, callee, arg, input, io_slot, fed, hist>>

\* fn_ptr_impl, line 91: the Box's allocation is freed; control is back in the
\* caller (take_call, line 67, yields true)
fn_free(t) ==
    /\ variant = "CallbackCell"
    /\ pc[t] = "free"
    /\ freed' = [freed EXCEPT ![bx[t]] = @ + 1]
    /\ action' = [action EXCEPT ![bx[t]] = "-"]
    /\ pc' = [pc EXCEPT ![t] = "ret"]
    /\ ret' = IF call[t] = "take_call"
                THEN [ret EXCEPT ![t] = [kind |-> "true", val |-> 0]]
                ELSE ret
    /\ obs' = ObsFree(t)
    /\ UNCHANGED <<variant, slot, destroyed, nextEnv, invoked, disposed, call,
                   ptr, old_ptr, bx, run, callee, arg, input, io_slot, fed, hist>>

\* Drop::drop, line 77: drop_raw(*self.0.get_mut()); &mut self: no call is running
drop_begin(t) ==
    /\ variant = "CallbackCell"
    /\ ~destroyed /\ AllIdle
    /\ call' = [call EXCEPT ![t] = "drop"]
    /\ old_ptr' = [old_ptr EXCEPT ![t] = slot]
    /\ pc' = [pc EXCEPT ![t] = "drop_raw"]
    /\ hist' = Log(Entry("drop", "-", NoInput))
    /\ obs' = ObsDrop(t)
    /\ UNCHANGED <<variant, slot, destroyed, heapVars, ptr, bx, run, callee,
                   arg, input, io_slot, ret, fed>>

\* put line 52, take_call line 71, drop line 79
put_return(t) ==
    variant = "CallbackCell" /\ call[t] = "put" /\ Return(t) /\ UNCHANGED hist

take_call_return(t) ==
    variant = "CallbackCell" /\ call[t] = "take_call" /\ Return(t) /\ UNCHANGED hist

drop_return(t) ==
    variant = "CallbackCell" /\ call[t] = "drop" /\ Return(t) /\ UNCHANGED hist

\* fmt with an exchange in place of the load: looking empties the slot
fmt_load_swap(t) ==
    /\ variant = "CallbackCell"
    /\ CanCall(t)
    /\ call' = [call EXCEPT ![t] = "fmt"]
    /\ slot' = Null
    /\ ptr' = [ptr EXCEPT ![t] = slot]
    /\ pc' = [pc EXCEPT ![t] = "write"]
    /\ obs' = ObsLoad(t)
    /\ UNCHANGED <<variant, destroyed, heapVars, old_ptr, bx, run, callee, arg,
                   input, io_slot, ret, fed, hist>>

\* Debug::fmt, line 112: self.0.load(Ordering::Relaxed) as *const ()
fmt_load(t) ==
    /\ variant = "CallbackCell"
    /\ CanCall(t)
    /\ call' = [call EXCEPT ![t] = "fmt"]
    /\ ptr' = [ptr EXCEPT ![t] = slot]
    /\ pc' = [pc EXCEPT ![t] = "write"]
    /\ obs' = ObsLoad(t)
    /\ UNCHANGED <<variant, slot, destroyed, heapVars, old_ptr, bx, run, callee,
                   arg, input, io_slot, ret, fed, hist>>

\* Debug::fmt, lines 112-116: is_null() chooses the text f.write_str writes
fmt_write(t) ==
    /\ variant = "CallbackCell"
    /\ call[t] = "fmt" /\ pc[t] = "write"
    /\ ret' = [ret EXCEPT ![t] =
                 [kind |-> IF ptr[t] = Null THEN "CallbackCell(NULL)"
                           ELSE "CallbackCell(NOT NULL)",
                  val |-> 0]]
    /\ pc' = [pc EXCEPT ![t] = "ret"]
    /\ obs' = Tick(t)
    /\ UNCHANGED <<variant, slot, destroyed, heapVars, call, ptr, old_ptr, bx,
                   run, callee, arg, input, io_slot, fed, hist>>

\* Debug::fmt returns the fmt::Result
fmt_return(t) ==
    variant = "CallbackCell" /\ call[t] = "fmt" /\ Return(t) /\ UNCHANGED hist

\* ======================================================== CallbackCellArgs
\* what reading io_slot.output yields: the output if one was written, else
\* whatever the union's bytes hold
Poison == 0 - 99
ReadOutput(io) == IF io.tag = "output" THEN {io.val} ELSE {io.val, Poison}

\* put, lines 52-56: Box::new(CallbackCellInner { fn_ptr, tail: f }); into_raw
args_put_alloc(t, f) ==
    /\ variant = "CallbackCellArgs"
    /\ CanCall(t)
    /\ nextEnv < MaxEnv
    /\ nextEnv' = nextEnv + 1
    /\ action' = [action EXCEPT ![nextEnv + 1] = f]
    /\ call' = [call EXCEPT ![t] = "put"]
    /\ pc' = [pc EXCEPT ![t] = "swap"]
    /\ ptr' = [ptr EXCEPT ![t] = nextEnv + 1]
    /\ hist' = Log(Entry("put", f, NoInput))
    /\ obs' = ObsAlloc(t, f)
    /\ UNCHANGED <<variant, slot, destroyed, invoked, disposed, freed, old_ptr,
                   bx, run, callee, arg, input, io_slot, ret, fed>>

\* args_put_swap followed by drop_raw(ptr) in place of drop_raw(old_ptr)
args_put_swap_drops_new(t) ==
    /\ variant = "CallbackCellArgs"
    /\ call[t] = "put" /\ pc[t] = "swap"
    /\ slot' = swap(slot, ptr[t]).cell
    /\ old_ptr' = [old_ptr EXCEPT ![t] = ptr[t]]
    /\ pc' = [pc EXCEPT ![t] = "drop_raw"]
    /\ obs' = ObsPut(t)
    /\ UNCHANGED <<variant, destroyed, heapVars, call, ptr, bx, run, callee,
                   arg, input, io_slot, ret, fed, hist>>

\* put that installs only into an empty slot: an occupied slot keeps its
\* envelope and the put disposes its own
args_put_swap_if_empty(t) ==
    /\ variant = "CallbackCellArgs"
    /\ call[t] = "put" /\ pc[t] = "swap"
    /\ slot' = IF slot = Null THEN ptr[t] ELSE slot
    /\ old_ptr' = [old_ptr EXCEPT ![t] = IF slot = Null THEN Null ELSE ptr[t]]
    /\ pc' = [pc EXCEPT ![t] = "drop_raw"]
    /\ obs' = ObsPut(t)
    /\ UNCHANGED <<variant, destroyed, heapVars, call, ptr, bx, run, callee,
                   arg, input, io_slot, ret, fed, hist>>

\* put, line 59: let old_ptr = self.ptr.swap(ptr.cast(), AcqRel)
args_put_swap(t) ==
    /\ variant = "CallbackCellArgs"
    /\ call[t] = "put" /\ pc[t] = "swap"
    /\ LET r == swap(slot, ptr[t]) IN
        /\ slot' = r.cell
        /\ old_ptr' = [old_ptr EXCEPT ![t] = r.old]
    /\ pc' = [pc EXCEPT ![t] = "drop_raw"]
    /\ obs' = ObsPut(t)
    /\ UNCHANGED <<variant, destroyed, heapVars, call, ptr, bx, run, callee,
                   arg, input, io_slot, ret, fed, hist>>

\* put that disposes the callback another thread is running, when there is
\* one, instead of the one its swap returned
args_drop_raw_running(t) ==
    /\ variant = "CallbackCellArgs"
    /\ call[t] \in {"put", "drop"} /\ pc[t] = "drop_raw"
    /\ LET running == {bx[u] : u \in {v \in Threads : pc[v] = "tail"}}
           p == IF running # {} THEN CHOOSE e \in running : TRUE ELSE old_ptr[t]
       IN IF p # Null
            THEN /\ bx' = [bx EXCEPT ![t] = p]
                 /\ run' = [run EXCEPT ![t] = "None"]
                 /\ pc' = [pc EXCEPT ![t] = "fn_ptr_impl"]
            ELSE /\ pc' = [pc EXCEPT ![t] = "ret"]
                 /\ UNCHANGED <<bx, run>>
    /\ obs' = Tick(t)
    /\ UNCHANGED <<variant, slot, destroyed, heapVars, call, ptr, old_ptr,
                   callee, arg, input, io_slot, ret, fed, hist>>

\* drop_raw, lines 121-128: if non-null, read fn_ptr and call fn_ptr(None, ptr)
args_drop_raw(t) ==
    /\ variant = "CallbackCellArgs"
    /\ call[t] \in {"put", "drop"} /\ pc[t] = "drop_raw"
    /\ IF old_ptr[t] # Null
         THEN /\ bx' = [bx EXCEPT ![t] = old_ptr[t]]
              /\ run' = [run EXCEPT ![t] = "None"]
              /\ pc' = [pc EXCEPT ![t] = "fn_ptr_impl"]
         ELSE /\ pc' = [pc EXCEPT ![t] = "ret"]
              /\ UNCHANGED <<bx, run>>
    /\ obs' = Tick(t)
    /\ UNCHANGED <<variant, slot, destroyed, heapVars, call, ptr, old_ptr,
                   callee, arg, input, io_slot, ret, fed, hist>>

\* args_take_call_swap that, finding nothing, hands back a value other than
\* the caller's input
args_take_call_swap_other(t, x) ==
    /\ variant = "CallbackCellArgs"
    /\ CanCall(t)
    /\ input' = [input EXCEPT ![t] = x]
    /\ LET r == swap(slot, Null) IN
        /\ slot' = r.cell
        /\ ptr' = [ptr EXCEPT ![t] = r.old]
        /\ IF r.old # Null
             THEN /\ pc' = [pc EXCEPT ![t] = "call_fn"]
                  /\ ret' = ret
             ELSE /\ pc' = [pc EXCEPT ![t] = "ret"]
                  /\ ret' = [ret EXCEPT ![t] = [kind |-> "Err", val |-> 0]]
    /\ call' = [call EXCEPT ![t] = "take_call"]
    /\ hist' = Log(Entry("take_call", "-", x))
    /\ obs' = ObsTake(t)
    /\ UNCHANGED <<variant, destroyed, heapVars, old_ptr, bx, run, callee, arg,
                   io_slot, fed>>

\* take_call, lines 73-75 and 82-84: let ptr = self.ptr.swap(null_mut(), AcqRel);
\* a null ptr returns Err(input)
args_take_call_swap(t, x) ==
    /\ variant = "CallbackCellArgs"
    /\ CanCall(t)
    /\ input' = [input EXCEPT ![t] = x]
    /\ LET r == swap(slot, Null) IN
        /\ slot' = r.cell
        /\ ptr' = [ptr EXCEPT ![t] = r.old]
        /\ IF r.old # Null
             THEN /\ pc' = [pc EXCEPT ![t] = "call_fn"]
                  /\ ret' = ret
             ELSE /\ pc' = [pc EXCEPT ![t] = "ret"]
                  /\ ret' = [ret EXCEPT ![t] = [kind |-> "Err", val |-> x]]
    /\ call' = [call EXCEPT ![t] = "take_call"]
    /\ hist' = Log(Entry("take_call", "-", x))
    /\ obs' = ObsTake(t)
    /\ UNCHANGED <<variant, destroyed, heapVars, old_ptr, bx, run, callee, arg,
                   io_slot, fed>>

\* args_take_call_fn that builds the IoSlot without moving the input into it
args_take_call_fn_no_input(t) ==
    /\ variant = "CallbackCellArgs"
    /\ call[t] = "take_call" /\ pc[t] = "call_fn"
    /\ io_slot' = [io_slot EXCEPT ![t] = [tag |-> "input", val |-> 0]]
    /\ bx' = [bx EXCEPT ![t] = ptr[t]]
    /\ run' = [run EXCEPT ![t] = "Some"]
    /\ pc' = [pc EXCEPT ![t] = "fn_ptr_impl"]
    /\ obs' = Tick(t)
    /\ UNCHANGED <<variant, slot, destroyed, heapVars, call, ptr, old_ptr,
                   callee, arg, input, ret, fed, hist>>

\* take_call, lines 76-80: let fn_ptr = (*ptr).fn_ptr; io_slot = IoSlot { input };
\* fn_ptr(Some(&mut io_slot), ptr)
args_take_call_fn(t) ==
    /\ variant = "CallbackCellArgs"
    /\ call[t] = "take_call" /\ pc[t] = "call_fn"
    /\ io_slot' = [io_slot EXCEPT ![t] = [tag |-> "input", val |-> input[t]]]
    /\ bx' = [bx EXCEPT ![t] = ptr[t]]
    /\ run' = [run EXCEPT ![t] = "Some"]
    /\ pc' = [pc EXCEPT ![t] = "fn_ptr_impl"]
    /\ obs' = Tick(t)
    /\ UNCHANGED <<variant, slot, destroyed, heapVars, call, ptr, old_ptr,
                   callee, arg, input, ret, fed, hist>>

\* fn_ptr_impl that passes the callback a bitwise copy of the input and leaves
\* the input in the overlay
args_fn_ptr_impl_run_copy(t) ==
    /\ variant = "CallbackCellArgs"
    /\ pc[t] = "fn_ptr_impl" /\ run[t] = "Some"
    /\ arg' = [arg EXCEPT ![t] = io_slot[t].val]
    /\ io_slot' = io_slot
    /\ callee' = [callee EXCEPT ![t] = action[bx[t]]]
    /\ action' = [action EXCEPT ![bx[t]] = "moved"]
    /\ invoked' = [invoked EXCEPT ![bx[t]] = @ + 1]
    /\ fed' = [fed EXCEPT ![t] = Append(@, bx[t])]
    /\ pc' = [pc EXCEPT ![t] = "tail"]
    /\ obs' = Tick(t)
    /\ UNCHANGED <<variant, slot, destroyed, nextEnv, disposed, freed, call,
                   ptr, old_ptr, bx, run, input, ret, hist>>

\* fn_ptr_impl, lines 108-114 with run = Some(io): Box::from_raw; the input is
\* taken out of io.input; bx.tail is moved out of the box and called with it
args_fn_ptr_impl_run(t) ==
    /\ variant = "CallbackCellArgs"
    /\ pc[t] = "fn_ptr_impl" /\ run[t] = "Some"
    /\ arg' = [arg EXCEPT ![t] = io_slot[t].val]
    /\ io_slot' = [io_slot EXCEPT ![t].tag = "moved"]
    /\ callee' = [callee EXCEPT ![t] = action[bx[t]]]
    /\ action' = [action EXCEPT ![bx[t]] = "moved"]
    /\ invoked' = [invoked EXCEPT ![bx[t]] = @ + 1]
    /\ fed' = [fed EXCEPT ![t] = Append(@, bx[t])]
    /\ pc' = [pc EXCEPT ![t] = "tail"]
    /\ obs' = ObsTook(t)
    /\ UNCHANGED <<variant, slot, destroyed, nextEnv, disposed, freed, call,
                   ptr, old_ptr, bx, run, input, ret, hist>>

\* args_tail_return without the write of the output to io.output
args_tail_return_lost(t) ==
    /\ variant = "CallbackCellArgs"
    /\ pc[t] = "tail"
    /\ pc' = [pc EXCEPT ![t] = "free"]
    /\ obs' = Tick(t)
    /\ UNCHANGED <<variant, slot, destroyed, heapVars, call, ptr, old_ptr, bx,
                   run, callee, arg, input, io_slot, ret, fed, hist>>

\* fn_ptr_impl, lines 114-115: the callback returns its output, which is
\* written to io.output
args_tail_return(t) ==
    /\ variant = "CallbackCellArgs"
    /\ pc[t] = "tail"
    /\ io_slot' = [io_slot EXCEPT ![t] =
                       [tag |-> "output", val |-> Apply(callee[t], arg[t])]]
    /\ pc' = [pc EXCEPT ![t] = "free"]
    /\ obs' = Tick(t)
    /\ UNCHANGED <<variant, slot, destroyed, heapVars, call, ptr, old_ptr, bx,
                   run, callee, arg, input, ret, fed, hist>>

\* fn_ptr_impl that forgets the callback in dispose mode instead of dropping it
args_fn_ptr_impl_drop_forget(t) ==
    /\ variant = "CallbackCellArgs"
    /\ pc[t] = "fn_ptr_impl" /\ run[t] = "None"
    /\ pc' = [pc EXCEPT ![t] = "free"]
    /\ obs' = Tick(t)
    /\ UNCHANGED <<variant, slot, destroyed, heapVars, call, ptr, old_ptr, bx,
                   run, callee, arg, input, io_slot, ret, fed, hist>>

\* fn_ptr_impl, lines 112-117 with run = None: bx goes out of scope with its
\* tail in place, so the callback is dropped without being called
args_fn_ptr_impl_drop(t) ==
    /\ variant = "CallbackCellArgs"
    /\ pc[t] = "fn_ptr_impl" /\ run[t] = "None"
    /\ action' = [action EXCEPT ![bx[t]] = "dropped"]
    /\ disposed' = [disposed EXCEPT ![bx[t]] = @ + 1]
    /\ pc' = [pc EXCEPT ![t] = "free"]
    /\ obs' = ObsGave(t, bx[t])
    /\ UNCHANGED <<variant, slot, destroyed, nextEnv, invoked, freed, call, ptr,
                   old_ptr, bx, run, callee, arg, input, io_slot, ret, fed, hist>>

\* fn_ptr_impl, line 117: the Box's allocation is freed; control is back in the
\* caller (take_call, line 81, yields Ok(io_slot.output))
args_fn_free(t) ==
    /\ variant = "CallbackCellArgs"
    /\ pc[t] = "free"
    /\ freed' = [freed EXCEPT ![bx[t]] = @ + 1]
    /\ action' = [action EXCEPT ![bx[t]] = "-"]
    /\ pc' = [pc EXCEPT ![t] = "ret"]
    /\ IF call[t] = "take_call"
         THEN \E v \in ReadOutput(io_slot[t]) :
                  ret' = [ret EXCEPT ![t] = [kind |-> "Ok", val |-> v]]
         ELSE ret' = ret
    /\ obs' = ObsFree(t)
    /\ UNCHANGED <<variant, slot, destroyed, nextEnv, invoked, disposed, call,
                   ptr, old_ptr, bx, run, callee, arg, input, io_slot, fed, hist>>

\* a drop that leaves the slot's envelope alone (no Drop impl)
args_drop_begin_forget(t) ==
    /\ variant = "CallbackCellArgs"
    /\ ~destroyed /\ AllIdle
    /\ call' = [call EXCEPT ![t] = "drop"]
    /\ pc' = [pc EXCEPT ![t] = "ret"]
    /\ hist' = Log(Entry("drop", "-", NoInput))
    /\ obs' = ObsDrop(t)
    /\ UNCHANGED <<variant, slot, destroyed, heapVars, ptr, old_ptr, bx, run,
                   callee, arg, input, io_slot, ret, fed>>

\* Drop::drop, line 91: drop_raw(*self.ptr.get_mut()); &mut self: no call is running
args_drop_begin(t) ==
    /\ variant = "CallbackCellArgs"
    /\ ~destroyed /\ AllIdle
    /\ call' = [call EXCEPT ![t] = "drop"]
    /\ old_ptr' = [old_ptr EXCEPT ![t] = slot]
    /\ pc' = [pc EXCEPT ![t] = "drop_raw"]
    /\ hist' = Log(Entry("drop", "-", NoInput))
    /\ obs' = ObsDrop(t)
    /\ UNCHANGED <<variant, slot, destroyed, heapVars, ptr, bx, run, callee,
                   arg, input, io_slot, ret, fed>>

\* put line 65, take_call line 85, drop line 93
args_put_return(t) ==
    variant = "CallbackCellArgs" /\ call[t] = "put" /\ Return(t) /\ UNCHANGED hist

args_take_call_return(t) ==
    variant = "CallbackCellArgs" /\ call[t] = "take_call" /\ Return(t)
        /\ UNCHANGED hist

args_drop_return(t) ==
    variant = "CallbackCellArgs" /\ call[t] = "drop" /\ Return(t) /\ UNCHANGED hist

\* fmt with an exchange in place of the load: looking empties the slot
args_fmt_load_swap(t) ==
    /\ variant = "CallbackCellArgs"
    /\ CanCall(t)
    /\ call' = [call EXCEPT ![t] = "fmt"]
    /\ slot' = Null
    /\ ptr' = [ptr EXCEPT ![t] = slot]
    /\ pc' = [pc EXCEPT ![t] = "write"]
    /\ obs' = ObsLoad(t)
    /\ UNCHANGED <<variant, destroyed, heapVars, old_ptr, bx, run, callee, arg,
                   input, io_slot, ret, fed, hist>>

\* Debug::fmt, line 138: self.ptr.load(Ordering::Relaxed) as *const ()
args_fmt_load(t) ==
    /\ variant = "CallbackCellArgs"
    /\ CanCall(t)
    /\ call' = [call EXCEPT ![t] = "fmt"]
    /\ ptr' = [ptr EXCEPT ![t] = slot]
    /\ pc' = [pc EXCEPT ![t] = "write"]
    /\ obs' = ObsLoad(t)
    /\ UNCHANGED <<variant, slot, destroyed, heapVars, old_ptr, bx, run, callee,
                   arg, input, io_slot, ret, fed, hist>>

\* Debug::fmt, lines 138-142: is_null() chooses the text f.write_str writes
args_fmt_write(t) ==
    /\ variant = "CallbackCellArgs"
    /\ call[t] = "fmt" /\ pc[t] = "write"
    /\ ret' = [ret EXCEPT ![t] =
                 [kind |-> IF ptr[t] = Null THEN "CallbackCellArgs(NULL)"
                           ELSE "CallbackCellArgs(NOT NULL)",
                  val |-> 0]]
    /\ pc' = [pc EXCEPT ![t] = "ret"]
    /\ obs' = Tick(t)
    /\ UNCHANGED <<variant, slot, destroyed, heapVars, call, ptr, old_ptr, bx,
                   run, callee, arg, input, io_slot, fed, hist>>

\* Debug::fmt returns the fmt::Result
args_fmt_return(t) ==
    variant = "CallbackCellArgs" /\ call[t] = "fmt" /\ Return(t) /\ UNCHANGED hist

\* ------------------------------------------------------------------ threads
\* what thread t may do next inside a call it has started
Step(t) ==
    \/ put_swap(t)
    \/ drop_raw(t)
    \/ take_call_fn(t)
    \/ fn_ptr_impl_run(t)
    \/ tail_return(t)
    \/ fn_ptr_impl_drop(t)
    \/ fn_free(t)
    \/ args_put_swap(t)
    \/ args_drop_raw(t)
    \/ args_take_call_fn(t)
    \/ args_fn_ptr_impl_run(t)
    \/ args_tail_return(t)
    \/ args_fn_ptr_impl_drop(t)
    \/ args_fn_free(t)

\* everything thread t may do
ThreadNext(t) ==
        \/ \E f \in Actions : put_alloc(t, f)
        \/ take_call_swap(t)
        \/ drop_begin(t)
        \/ \E f \in Actions : args_put_alloc(t, f)
        \/ \E x \in Inputs(t) : args_take_call_swap(t, x)
        \/ args_drop_begin(t)
        \/ Step(t)
        \/ put_return(t)
        \/ take_call_return(t)
        \/ drop_return(t)
        \/ args_put_return(t)
        \/ args_take_call_return(t)
        \/ args_drop_return(t)

\* any number of threads share the cell; the owner may drop it when no call runs
Next == \E t \in Threads : ThreadNext(t)

Spec == Init /\ [][Next]_vars

\* ------------------------------------------------------- one thread, logged
\* the constructor's call is logged, and so is every call after it
InitSeq == new /\ NoCalls /\ hist = <<Entry("new", "-", NoInput)>> /\ obs = NoObs

\* a single thread makes one call after another
NextSeq == ThreadNext(Main)

SpecSeq == InitSeq /\ [][NextSeq]_vars

\* ------------------------------------------- one pending callback, takers only
\* the state after new() and one put(f): envelope 1 is in the slot
InitTakeRace ==
    /\ variant \in {"CallbackCell", "CallbackCellArgs"}
    /\ slot = 1
    /\ destroyed = FALSE
    /\ nextEnv = 1
    /\ invoked = [e \in Envs |-> 0]
    /\ disposed = [e \in Envs |-> 0]
    /\ freed = [e \in Envs |-> 0]
    /\ NoCalls
    /\ \E f \in Actions :
        /\ action = [e \in Envs |-> IF e = 1 THEN f ELSE "-"]
        /\ hist = <<Entry("new", "-", NoInput), Entry("put", f, NoInput)>>
        /\ obs = [NoObs EXCEPT !.reg = RegOf(1, f), !.installed = {1}]

\* every thread calls take_call once and stops where the call returns
NextTakeRace ==
    \E t \in Threads :
        \/ take_call_swap(t)
        \/ take_call_fn(t)
        \/ fn_ptr_impl_run(t)
        \/ tail_return(t)
        \/ fn_free(t)
        \/ \E x \in Inputs(t) : args_take_call_swap(t, x)
        \/ args_take_call_fn(t)
        \/ args_fn_ptr_impl_run(t)
        \/ args_tail_return(t)
        \/ args_fn_free(t)

SpecTakeRace == InitTakeRace /\ [][NextTakeRace]_vars

\* ------------------------------------------------- workers and an observer
\* one thread only formats the cell; the others call put, take_call and drop
Observer == CHOOSE t \in Threads : \A u \in Threads : u <= t

FmtNext(t) ==
    \/ fmt_load(t) \/ fmt_write(t) \/ fmt_return(t)
    \/ args_fmt_load(t) \/ args_fmt_write(t) \/ args_fmt_return(t)

NextFmt ==
    \/ \E t \in Threads \ {Observer} : ThreadNext(t)
    \/ FmtNext(Observer)

SpecFmt == Init /\ [][NextFmt]_vars

\* ================================================================== claims
Settled(e) == invoked[e] + disposed[e]
SumOver(cnt) == LET RECURSIVE Sum(_)
                    Sum(n) == IF n = 0 THEN 0 ELSE cnt[n] + Sum(n - 1)
                IN Sum(MaxEnv)
IsArgs == variant = "CallbackCellArgs"
\* thread t stands where its call returns
AtReturn(t, c) == call[t] = c /\ pc[t] = "ret"
\* the value a take_call that ran callback f on input x returns, and the value
\* one that found nothing returns
Success(f, x) ==
    IF IsArgs THEN [kind |-> "Ok", val |-> Apply(f, x)]
    ELSE [kind |-> "true", val |-> 0]
Absent(x) ==
    IF IsArgs THEN [kind |-> "Err", val |-> x] ELSE [kind |-> "false", val |-> 0]

\* C1: once every call has returned and the cell has been destroyed, every
\* envelope a put created has been invoked exactly once or disposed exactly
\* once (not both, not neither), and its memory has been freed exactly once.
C1_SettledAndFreedOnce ==
    (destroyed /\ AllIdle) =>
        \A e \in Envs :
            IF Allocated(e)
              THEN Settled(e) = 1 /\ freed[e] = 1
              ELSE Settled(e) = 0 /\ freed[e] = 0

\* C1 witness: the cell is gone after concurrent calls left one callback
\* invoked and another disposed
C1_Witness ==
    /\ destroyed /\ AllIdle
    /\ \E e1, e2 \in Envs : invoked[e1] = 1 /\ disposed[e2] = 1

\* the callback that was pending when the takers arrived
PendingF == hist[CHOOSE i \in 1..Len(hist) : hist[i].op = "put"].f
AllReturned == \A t \in Threads : AtReturn(t, "take_call")

\* C2: one callback pending, no put, every thread calls take_call at once:
\* exactly one call reports success (with the callback's result on its own
\* input) and invokes the callback; every other call reports absence and
\* invokes nothing.
C2_OneTakerWins ==
    AllReturned =>
        /\ invoked[1] = 1
        /\ \E w \in Threads :
            /\ ret[w] = Success(PendingF, input[w])
            /\ fed[w] = <<1>>
            /\ \A t \in Threads \ {w} :
                ret[t] = Absent(input[t]) /\ fed[t] = <<>>

\* C2 witness: all takers have returned, and the last one to arrive won
C2_Witness ==
    /\ AllReturned
    /\ fed[NumThreads] = <<1>>
    /\ \A t \in Threads \ {NumThreads} : ret[t] = Absent(input[t])

\* C3 as stated: N threads have each put once and stand where put returns:
\* invocations plus disposals equal N.
C3_AsStated ==
    (nextEnv = NumThreads /\ \A t \in Threads : AtReturn(t, "put")) =>
        SumOver(invoked) + SumOver(disposed) = NumThreads

\* C3 amended: whenever no call is running, every callback put so far has been
\* invoked or disposed exactly once, except the one still pending in the cell,
\* which has been neither: invocations plus disposals equal the number of puts
\* once the cell has been emptied by a take or destroyed, and one less while
\* it still holds a callback.
C3_SettledExceptPending ==
    AllIdle =>
        /\ \A e \in Envs :
              Settled(e) = IF Allocated(e) /\ (destroyed \/ e # slot) THEN 1 ELSE 0
        /\ SumOver(invoked) + SumOver(disposed) =
              nextEnv - (IF destroyed \/ slot = Null THEN 0 ELSE 1)

\* C3 witness: every thread's put has returned, then the cell was destroyed;
\* no callback was ever invoked
C3_Witness ==
    /\ AllIdle /\ destroyed
    /\ nextEnv = NumThreads
    /\ SumOver(disposed) = NumThreads

\* C7: destroying a cell that holds a pending callback disposes it exactly
\* once, without invoking it and without producing an output (fn_ptr_impl runs
\* in dispose mode only); destroying an empty cell disposes and frees nothing.
C7_DropDisposes ==
    \A t \in Threads :
        call[t] = "drop" =>
            /\ pc[t] # "tail"
            /\ run[t] \in {"-", "false", "None"}
            /\ fed[t] = <<>> /\ callee[t] = "-"
            /\ io_slot[t] = NoIo /\ ret[t] = NoRet
            /\ \A e \in Envs : e # slot => Settled(e) = IF Allocated(e) THEN 1 ELSE 0
            /\ \A e \in Envs : e # slot => freed[e] = IF Allocated(e) THEN 1 ELSE 0
            /\ slot # Null => invoked[slot] = 0 /\ disposed[slot] <= 1 /\ freed[slot] <= 1
            /\ (pc[t] = "ret" /\ slot # Null) =>
                    disposed[slot] = 1 /\ freed[slot] = 1
            /\ (pc[t] = "ret" /\ slot = Null) => bx[t] = Null /\ run[t] = "-"

\* C7 witness: the drop of a cell that held a pending callback stands at its
\* return, after an earlier callback had been taken and run
C7_Witness ==
    \E t \in Threads :
        /\ AtReturn(t, "drop")
        /\ slot # Null /\ disposed[slot] = 1
        /\ \E e \in Envs : invoked[e] = 1

\* C8: whenever no call is running, the envelopes allocated and not yet freed
\* are exactly the one in the slot (none if the slot is empty), so put/take
\* cycles leave nothing behind; and no envelope is ever freed twice.
C8_NoLeakNoDoubleFree ==
    /\ \A e \in Envs : freed[e] <= 1
    /\ (AllIdle /\ ~destroyed) => LiveSet = (IF slot = Null THEN {} ELSE {slot})

\* C8 witness: every envelope the bounds allow went through a put/take cycle and
\* the cell is empty again
C8_Witness ==
    /\ AllIdle /\ ~destroyed /\ slot = Null
    /\ nextEnv = MaxEnv
    /\ \A e \in Envs : invoked[e] = 1 /\ freed[e] = 1

Owns(t, e) ==
    \/ call[t] = "put" /\ pc[t] = "swap" /\ ptr[t] = e
    \/ call[t] = "put" /\ pc[t] \in {"drop_raw", "fn_ptr_impl", "free"}
          /\ old_ptr[t] = e
    \/ call[t] = "take_call" /\ pc[t] \in {"call_fn", "fn_ptr_impl", "tail", "free"}
          /\ ptr[t] = e
Holders(e) ==
    (IF slot = e THEN 1 ELSE 0) + Cardinality({t \in Threads : Owns(t, e)})
Dropping == destroyed \/ \E t \in Threads : call[t] = "drop"

InputPlaces(t) ==
    (IF pc[t] = "call_fn" THEN 1 ELSE 0)
    + (IF io_slot[t] = [tag |-> "input", val |-> input[t]] THEN 1 ELSE 0)
    + (IF arg[t] = input[t] THEN 1 ELSE 0)
    + (IF ret[t] = [kind |-> "Err", val |-> input[t]] THEN 1 ELSE 0)

\* C10: in the input/output variant, under any interleaving, the input x of a
\* take_call is in exactly one place at any time, is passed to at most one
\* callback, and at return has either been passed to exactly one callback
\* (the call returns Ok with that callback's output on x) or is handed back
\* to the same caller in Err; no other thread's call ever holds it.
C10_InputConserved ==
    \A t \in Threads :
        (IsArgs /\ call[t] = "take_call") =>
            /\ input[t] \in Inputs(t)
            /\ InputPlaces(t) = 1
            /\ Len(fed[t]) <= 1
            /\ arg[t] # NoInput <=> Len(fed[t]) = 1
            /\ \A u \in Threads \ {t} :
                  /\ arg[u] # input[t]
                  /\ io_slot[u].tag = "input" => io_slot[u].val # input[t]
                  /\ ret[u].kind = "Err" => ret[u].val # input[t]
            /\ pc[t] = "ret" =>
                  \/ /\ ret[t] = [kind |-> "Err", val |-> input[t]]
                     /\ fed[t] = <<>>
                     /\ io_slot[t] = NoIo
                  \/ /\ ret[t] = [kind |-> "Ok", val |-> Apply(callee[t], input[t])]
                     /\ Len(fed[t]) = 1
                     /\ io_slot[t].tag = "output"

\* C10 witness: two take_calls overlap; one stands at its return with Ok, the
\* other with its own input back in Err
C10_Witness ==
    /\ IsArgs
    /\ \E t, u \in Threads :
        /\ AtReturn(t, "take_call") /\ ret[t].kind = "Ok" /\ arg[t] = input[t]
        /\ AtReturn(u, "take_call") /\ ret[u] = [kind |-> "Err", val |-> input[u]]

\* ------------------------------------------------ claims about logged runs
\* the k-th latest logged call (0: the latest), and whether the log ends with
\* calls of the given kinds
H(k) == hist[Len(hist) - k]
HistEnds(ops) ==
    /\ Len(hist) >= Len(ops)
    /\ \A i \in 1..Len(ops) : hist[Len(hist) - Len(ops) + i].op = ops[i]

\* C4: put(f) directly followed by take_call(x) invokes f exactly once, returns
\* success (true; Ok(f(x))) and leaves the cell empty; a take_call directly
\* after that reports absence and invokes nothing.
C4_RoundTrip ==
    /\ (AtReturn(Main, "take_call") /\ HistEnds(<<"put", "take_call">>)) =>
          /\ ret[Main] = Success(H(1).f, H(0).x)
          /\ fed[Main] = <<nextEnv>>
    /\ HistEnds(<<"put", "take_call">>) =>
          /\ slot = Null
          /\ invoked[nextEnv] <= 1 /\ disposed[nextEnv] = 0
          /\ pc[Main] \in {"ret", "idle"} =>
                invoked[nextEnv] = 1 /\ freed[nextEnv] = 1
    /\ (call[Main] = "take_call"
            /\ HistEnds(<<"put", "take_call", "take_call">>)) =>
          /\ pc[Main] = "ret"
          /\ ret[Main] = Absent(H(0).x)
          /\ fed[Main] = <<>>
          /\ slot = Null
          /\ invoked[nextEnv] = 1 /\ disposed[nextEnv] = 0

\* C4 witness: put(f), take_call(x) returned Ok(f(x)), and the take_call after
\* it stands at its return with nothing found
C4_Witness ==
    /\ IsArgs
    /\ AtReturn(Main, "take_call")
    /\ HistEnds(<<"put", "take_call", "take_call">>)
    /\ ret[Main].kind = "Err"
    /\ invoked[nextEnv] = 1

\* C5: take_call on an empty cell (fresh, or emptied by the take_call before
\* it) invokes nothing, leaves the cell empty and reports absence: false, or
\* Err carrying exactly the caller's input.
C5_TakeOnEmpty ==
    (call[Main] = "take_call" /\ Len(hist) >= 2
            /\ H(1).op \in {"new", "take_call"}) =>
        /\ pc[Main] = "ret"
        /\ ret[Main] = Absent(input[Main])
        /\ input[Main] = H(0).x
        /\ fed[Main] = <<>>
        /\ ptr[Main] = Null /\ bx[Main] = Null
        /\ io_slot[Main] = NoIo
        /\ slot = Null
        /\ LiveSet = {}
        /\ \A e \in Envs : Settled(e) = IF Allocated(e) THEN 1 ELSE 0

\* C5 witness: a take_call that follows a take_call which had emptied the cell
C5_Witness ==
    /\ IsArgs
    /\ AtReturn(Main, "take_call")
    /\ H(1).op = "take_call"
    /\ nextEnv >= 1
    /\ ret[Main] = [kind |-> "Err", val |-> input[Main]]

\* C6: put(f1) directly followed by put(f2) disposes f1 without ever invoking
\* it, and has done so (and freed it) when the second put returns; a take_call
\* directly after invokes f2 and only f2.
C6_Replacement ==
    /\ HistEnds(<<"put", "put">>) =>
          /\ invoked[nextEnv - 1] = 0
          /\ invoked[nextEnv] = 0
    /\ (pc[Main] \in {"ret", "idle"} /\ HistEnds(<<"put", "put">>)) =>
          /\ disposed[nextEnv - 1] = 1 /\ freed[nextEnv - 1] = 1
          /\ slot = nextEnv
          /\ action[nextEnv] = H(0).f
          /\ disposed[nextEnv] = 0 /\ freed[nextEnv] = 0
    /\ HistEnds(<<"put", "put", "take_call">>) =>
          /\ invoked[nextEnv - 1] = 0 /\ disposed[nextEnv - 1] = 1
          /\ disposed[nextEnv] = 0
    /\ (AtReturn(Main, "take_call")
            /\ HistEnds(<<"put", "put", "take_call">>)) =>
          /\ ret[Main] = Success(H(1).f, H(0).x)
          /\ fed[Main] = <<nextEnv>>
          /\ invoked[nextEnv] = 1

\* C6 witness: f1 was replaced by a different f2, and the take_call after it
\* has run f2
C6_Witness ==
    /\ IsArgs
    /\ AtReturn(Main, "take_call")
    /\ HistEnds(<<"put", "put", "take_call">>)
    /\ H(2).f # H(1).f
    /\ ret[Main].kind = "Ok"
    /\ disposed[nextEnv - 1] = 1

\* ------------------------------------------- claims about calls in progress

\* the places a call can stand at, and the steps thread t can take by itself
\* while its put or take_call is in progress
Locations ==
    {"idle", "swap", "drop_raw", "call_fn", "fn_ptr_impl", "tail", "free", "ret"}
OwnStep(t) ==
    \/ Step(t)
    \/ put_return(t) \/ take_call_return(t)
    \/ args_put_return(t) \/ args_take_call_return(t)
InCall(t) == call[t] \in {"put", "take_call"}
\* the call of thread t is past its exchange
Exchanged(t) == InCall(t) /\ pc[t] # "swap"

\* C11: put and take_call never block and never retry: whatever the other
\* threads do, a call in progress has a step of its own to take and returns
\* after fewer steps than there are locations; it performs exactly one exchange
\* on the slot; put allocates once and frees at most once (the envelope its
\* exchange returned), take_call allocates nothing and frees at most once; the
\* call returns a regular result, never a failure.
C11_WaitFree ==
    \A t \in Threads : InCall(t) =>
        /\ ENABLED OwnStep(t)
        /\ obs.steps[t] < Cardinality(Locations)
        /\ obs.swaps[t] = (IF Exchanged(t) THEN 1 ELSE 0)
        /\ obs.allocs[t] = (IF call[t] = "put" THEN 1 ELSE 0)
        /\ obs.frees[t] <= 1
        /\ pc[t] = "ret" =>
              /\ obs.frees[t] = (IF obs.got[t].e = Null THEN 0 ELSE 1)
              /\ call[t] = "put" => ret[t] = NoRet
              /\ call[t] = "take_call" =>
                    ret[t].kind \in (IF IsArgs THEN {"Ok", "Err"}
                                    ELSE {"true", "false"})

\* C11 witness: a put that replaced a callback returns, having made one
\* exchange, one allocation and one deallocation, while another thread is in
\* the middle of a call of its own
C11_Witness ==
    \E t, u \in Threads :
        /\ t # u
        /\ AtReturn(t, "put")
        /\ obs.swaps[t] = 1 /\ obs.allocs[t] = 1 /\ obs.frees[t] = 1
        /\ InCall(u) /\ pc[u] \notin {"idle", "ret"}


\* the envelopes in a sequence
Range(q) == {q[i] : i \in 1..Len(q)}
\* the envelope the exchange of thread t's call returned (for drop: the one it
\* read out of the cell it owns), if any
Claim(t) == IF obs.got[t].e \in Envs THEN {obs.got[t].e} ELSE {}

\* C12: user code runs on the calling thread, inside the call: a call invokes
\* or disposes only the envelope its own exchange returned, take_call only
\* invokes and put (and drop) only dispose; a callback that has been invoked or
\* disposed and whose envelope is still live is in the hands of the call that
\* claimed it; and when take_call returns success the callback has been invoked
\* and has returned, when put returns the displaced callback has been disposed.
C12_OnCallingThread ==
    /\ \A t \in Threads :
          /\ Range(fed[t]) \subseteq Claim(t)
          /\ Range(obs.gave[t]) \subseteq Claim(t)
          /\ fed[t] # <<>> => call[t] = "take_call"
          /\ obs.gave[t] # <<>> => call[t] \in {"put", "drop"}
          /\ pc[t] = "tail" => bx[t] \in Claim(t)
          /\ (pc[t] = "ret" /\ Claim(t) # {}) =>
                \A e \in Claim(t) :
                    /\ freed[e] = 1
                    /\ IF call[t] = "take_call"
                         THEN fed[t] = <<e>> /\ obs.gave[t] = <<>>
                              /\ invoked[e] = 1 /\ disposed[e] = 0
                         ELSE obs.gave[t] = <<e>> /\ fed[t] = <<>>
                              /\ disposed[e] = 1 /\ invoked[e] = 0
    /\ \A e \in Envs :
          Settled(e) > 0 =>
              /\ e \in obs.claimed
              /\ Live(e) =>
                    \E t \in Threads :
                        /\ Claim(t) = {e}
                        /\ e \in Range(fed[t]) \cup Range(obs.gave[t])
                        /\ \A u \in Threads \ {t} :
                              e \notin Range(fed[u]) \cup Range(obs.gave[u])

\* C12 witness: one thread is inside the callback its take_call claimed while
\* another thread's put has disposed the callback it displaced and is about to
\* return
C12_Witness ==
    \E t, u \in Threads :
        /\ pc[t] = "tail" /\ call[t] = "take_call" /\ bx[t] \in Claim(t)
        /\ AtReturn(u, "put") /\ Claim(u) # {} /\ obs.gave[u] # <<>>


\* C13: the cell refines an atomic register holding Option<Box<dyn FnOnce>>,
\* each call taking effect at its exchange: the slot is the register (empty
\* for None, else the envelope of the register's callback); what a call's
\* exchange returned is what the register, stepped in exchange order, returned
\* to it, and no envelope is returned to two calls; so the callback a take_call
\* invokes is the one the latest put before it in exchange order installed, if
\* no exchange in between claimed it, and take_call reports success with that
\* callback's result exactly then, absence otherwise.
C13_RefinesRegister ==
    /\ ~Dropping =>
          /\ slot = obs.reg.e
          /\ slot # Null => action[slot] = obs.reg.f
    /\ \A t \in Threads :
          /\ Exchanged(t) =>
                (IF call[t] = "put" THEN old_ptr[t] ELSE ptr[t]) = obs.got[t].e
          /\ (call[t] = "take_call" /\ pc[t] = "tail") =>
                /\ bx[t] = obs.got[t].e
                /\ callee[t] = obs.got[t].f
          /\ AtReturn(t, "take_call") =>
                ret[t] = IF obs.got[t].e = Null THEN Absent(input[t])
                         ELSE Success(callee[t], input[t])
          /\ \A u \in Threads \ {t} : Claim(t) \cap Claim(u) = {}
    /\ obs.reg.e # Null => obs.reg.e \notin obs.claimed

\* C13 witness: a put is in progress whose envelope is in the slot, while a
\* take_call that claimed the callback of an earlier put is still inside that
\* callback
C13_Witness ==
    \E t, u \in Threads :
        /\ call[t] = "take_call" /\ pc[t] = "tail" /\ Claim(t) # {}
        /\ call[u] = "put" /\ Exchanged(u) /\ slot = ptr[u]
        /\ obs.got[u] = None


\* ------------------------------------------------- claims about the snapshot
\* the text fmt writes for what it was shown
Text(w) == variant \o "(" \o w \o ")"
\* this step is one of thread t's fmt
FmtStep(t) ==
    /\ call[t] = "fmt" \/ call'[t] = "fmt"
    /\ obs'.steps[t] # obs.steps[t]

\* C14: the snapshot reports only NULL or NOT NULL; its steps leave the slot,
\* every envelope and the record of what has been claimed and installed
\* unchanged; it performs no exchange, allocation or deallocation, claims no
\* envelope and invokes or disposes nothing; and what it reports is a state the
\* slot was in at some point between its load and its return, not necessarily
\* the state at its return.
C14_Snapshot ==
    /\ [](\A t \in Threads : call[t] = "fmt" =>
            /\ obs.swaps[t] = 0 /\ obs.allocs[t] = 0 /\ obs.frees[t] = 0
            /\ fed[t] = <<>> /\ obs.gave[t] = <<>> /\ Claim(t) = {}
            /\ pc[t] = "ret" =>
                  /\ ret[t].val = 0
                  /\ ret[t].kind \in {Text(w) : w \in obs.seen[t]}
                  /\ obs.seen[t] \subseteq {"NULL", "NOT NULL"})
    /\ [][\A t \in Threads : FmtStep(t) =>
            /\ slot' = slot
            /\ UNCHANGED heapVars
            /\ obs'.reg = obs.reg
            /\ obs'.claimed = obs.claimed
            /\ obs'.installed = obs.installed]_vars

\* C14 witness: fmt is about to return NOT NULL although the slot has been
\* emptied since its load
C14_Witness ==
    \E t \in Threads :
        /\ AtReturn(t, "fmt")
        /\ ret[t].kind = Text("NOT NULL")
        /\ slot = Null
        /\ obs.seen[t] = {"NULL", "NOT NULL"}


\* ---------------------------------------------------- claims about the slot
\* this step is the exchange of thread t's call c
Exchange(t, c) == call'[t] = c /\ obs'.swaps[t] = obs.swaps[t] + 1
Occupied == slot # Null

\* C15: the slot is Empty or Occupied by a live envelope holding a callback.
\* A put's exchange leaves it Occupied by the envelope that put allocated for
\* its own callback, whatever it was before, and hands the put the previous
\* occupant (if any) to dispose; a take_call's exchange leaves it Empty,
\* whatever it was before: from Empty the call reports absence at once, from
\* Occupied it is handed the occupant to invoke; no step that is not an
\* exchange changes the slot.
C15_TwoStates ==
    /\ [](~Dropping => (Occupied => slot \in LiveSet /\ action[slot] \in Actions))
    /\ [][ /\ \A t \in Threads : Exchange(t, "put") =>
                /\ slot' = ptr[t] /\ slot' \in Envs
                /\ action'[slot'] = obs.f[t]
                /\ old_ptr'[t] = slot
                /\ pc'[t] = "drop_raw"
           /\ \A t \in Threads : Exchange(t, "take_call") =>
                /\ slot' = Null
                /\ ptr'[t] = slot
                /\ IF Occupied
                     THEN pc'[t] = "call_fn" /\ ret'[t] = NoRet
                     ELSE pc'[t] = "ret" /\ ret'[t] = Absent(input'[t])
           /\ (\A t \in Threads : obs'.swaps[t] <= obs.swaps[t]) => slot' = slot
         ]_vars

\* C15 witness: a put has just exchanged its envelope into an Occupied slot
\* and holds the previous occupant
C15_Witness ==
    \E t \in Threads :
        /\ call[t] = "put" /\ pc[t] = "drop_raw"
        /\ old_ptr[t] # Null /\ slot = ptr[t]


\* the envelopes thread t holds a pointer it may still use: put does not touch
\* ptr again once it has swapped it in
Refs(t) ==
    (IF call[t] = "put" /\ Exchanged(t) THEN {old_ptr[t], bx[t]}
     ELSE {ptr[t], old_ptr[t], bx[t]}) \ {Null}
\* thread t is inside the callback of the envelope it claimed
Running(t) == pc[t] = "tail"

\* C16: an envelope an exchange has returned is never in the slot again and
\* stays claimed; until it is freed, no thread but the one that claimed it
\* holds a pointer to it, so two calls never claim the same envelope. Every
\* envelope that was installed and is not the slot's has been claimed, and a
\* take_call's exchange returns only an unclaimed one: hence a take_call whose
\* exchange comes after another call's claim (while that call's callback runs,
\* from another thread or from inside the callback) finds the slot empty or
\* claims an envelope installed after that claim. While a callback runs, no
\* step of another thread disposes or frees it or moves its call, and its
\* thread can go on.
C16_ExclusiveAfterClaim ==
    /\ [](/\ ~Dropping => slot \notin obs.claimed
          /\ ~Dropping => obs.installed \ obs.claimed \subseteq {slot}
          /\ \A t \in Threads : \A e \in Claim(t) :
                Live(e) => \A u \in Threads \ {t} :
                              e \notin Refs(u) \cup Claim(u)
          /\ \A t \in Threads : Running(t) =>
                /\ bx[t] \in Claim(t)
                /\ invoked[bx[t]] = 1 /\ disposed[bx[t]] = 0
                /\ freed[bx[t]] = 0
                /\ ENABLED OwnStep(t))
    /\ [][ /\ obs.claimed \subseteq obs'.claimed
           /\ \A u \in Threads : (Exchange(u, "take_call") /\ Occupied) =>
                /\ slot \in obs.installed \ obs.claimed
                /\ \A t \in Threads \ {u} : slot \notin Claim(t)
           /\ \A t \in Threads :
                (Running(t) /\ obs'.steps[t] = obs.steps[t]) =>
                    /\ Running(t)' /\ bx'[t] = bx[t] /\ callee'[t] = callee[t]
                    /\ invoked'[bx[t]] = 1 /\ disposed'[bx[t]] = 0
                    /\ freed'[bx[t]] = 0
         ]_vars

\* C16 witness: while one thread is inside the callback it claimed, a put has
\* installed a later callback and another take_call has claimed that one and
\* is inside it too
C16_Witness ==
    \E t, u \in Threads :
        /\ t # u
        /\ Running(t) /\ Running(u)
        /\ bx[t] < bx[u]
        /\ Claim(t) = {bx[t]} /\ Claim(u) = {bx[u]}


\* ------------------------------------------------- claims about the overlay
\* C17: in the input/output cell, a take_call that claimed an envelope hands
\* fn_ptr_impl an overlay holding its input; fn_ptr_impl takes the input out
\* once, before the callback runs, and passes it to the callback; when the
\* callback has returned and until take_call returns, the overlay holds the
\* callback's output and nothing else, the input having been taken out exactly
\* once; the value take_call returns is read from an overlay that holds the
\* output; a call that disposes (put, drop) has no overlay and takes nothing
\* out of one.
C17_Overlay ==
    IsArgs => \A t \in Threads :
        /\ call[t] \in {"put", "drop"} =>
              io_slot[t] = NoIo /\ obs.took[t] = 0 /\ arg[t] = NoInput
        /\ call[t] = "take_call" =>
              /\ pc[t] = "fn_ptr_impl" =>
                    /\ io_slot[t] = [tag |-> "input", val |-> input[t]]
                    /\ obs.took[t] = 0
              /\ pc[t] = "tail" =>
                    /\ io_slot[t].tag = "moved"
                    /\ arg[t] = input[t]
                    /\ obs.took[t] = 1
              /\ pc[t] = "free" =>
                    /\ io_slot[t] =
                         [tag |-> "output", val |-> Apply(callee[t], input[t])]
                    /\ obs.took[t] = 1
              /\ (pc[t] = "ret" /\ ret[t].kind = "Ok") =>
                    /\ io_slot[t] = [tag |-> "output", val |-> ret[t].val]
                    /\ ret[t].val # Poison
                    /\ obs.took[t] = 1
              /\ (pc[t] = "ret" /\ ret[t].kind = "Err") =>
                    io_slot[t] = NoIo /\ obs.took[t] = 0

\* C17 witness: fn_ptr_impl is about to return to a take_call, the overlay
\* holding the output of the callback, which differs from the input
C17_Witness ==
    \E t \in Threads :
        /\ IsArgs /\ call[t] = "take_call" /\ pc[t] = "free"
        /\ io_slot[t].tag = "output" /\ io_slot[t].val # input[t]
        /\ obs.took[t] = 1


\* ------------------------------------------- claims about the two variants
\* what the two kinds of cell have in common: everything but the values that
\* pass through the overlay, with `run` read as a mode (true / Some: run,
\* false / None: dispose) and the result of take_call as a verdict (true / Ok:
\* done, false / Err: absent)
Mode(r) ==
    IF r \in {"true", "Some"} THEN "run"
    ELSE IF r \in {"false", "None"} THEN "dispose" ELSE "-"
Verdict(r) ==
    IF r.kind \in {"true", "Ok"} THEN "done"
    ELSE IF r.kind \in {"false", "Err"} THEN "absent" ELSE "-"
Common ==
    [ slot |-> slot, destroyed |-> destroyed, nextEnv |-> nextEnv,
      action |-> action, invoked |-> invoked, disposed |-> disposed,
      freed |-> freed, call |-> call, pc |-> pc, ptr |-> ptr,
      old_ptr |-> old_ptr, bx |-> bx, fed |-> fed,
      mode |-> [t \in Threads |-> Mode(run[t])],
      ok |-> [t \in Threads |-> Verdict(ret[t])] ]

\* the one machine: the states a step of thread t leads to from common state p
Machine(p, t) ==
    LET can == ~p.destroyed /\ \A u \in Threads : p.call[u] # "drop"
        at == p.pc[t]
        e == p.bx[t]
        n == p.nextEnv + 1
    IN  IF at = "idle" THEN
            (IF can /\ p.nextEnv < MaxEnv
               THEN {[p EXCEPT !.nextEnv = n, !.action[n] = f, !.call[t] = "put",
                               !.pc[t] = "swap", !.ptr[t] = n] : f \in Actions}
               ELSE {})
            \cup
            (IF can
               THEN {[p EXCEPT !.slot = Null, !.ptr[t] = p.slot,
                               !.call[t] = "take_call",
                               !.pc[t] = IF p.slot # Null THEN "call_fn"
                                         ELSE "ret",
                               !.ok[t] = IF p.slot # Null THEN "-"
                                         ELSE "absent"]}
               ELSE {})
            \cup
            (IF ~p.destroyed /\ \A u \in Threads : p.pc[u] = "idle"
               THEN {[p EXCEPT !.call[t] = "drop", !.old_ptr[t] = p.slot,
                               !.pc[t] = "drop_raw"]}
               ELSE {})
        ELSE IF at = "swap" THEN
            {[p EXCEPT !.slot = p.ptr[t], !.old_ptr[t] = p.slot,
                       !.pc[t] = "drop_raw"]}
        ELSE IF at = "drop_raw" THEN
            {IF p.old_ptr[t] # Null
               THEN [p EXCEPT !.bx[t] = p.old_ptr[t], !.mode[t] = "dispose",
                              !.pc[t] = "fn_ptr_impl"]
               ELSE [p EXCEPT !.pc[t] = "ret"]}
        ELSE IF at = "call_fn" THEN
            {[p EXCEPT !.bx[t] = p.ptr[t], !.mode[t] = "run",
                       !.pc[t] = "fn_ptr_impl"]}
        ELSE IF at = "fn_ptr_impl" THEN
            {IF p.mode[t] = "run"
               THEN [p EXCEPT !.action[e] = "moved", !.invoked[e] = @ + 1,
                              !.fed[t] = Append(@, e), !.pc[t] = "tail"]
               ELSE [p EXCEPT !.action[e] = "dropped", !.disposed[e] = @ + 1,
                              !.pc[t] = "free"]}
        ELSE IF at = "tail" THEN
            {[p EXCEPT !.pc[t] = "free"]}
        ELSE IF at = "free" THEN
            {[p EXCEPT !.freed[e] = @ + 1, !.action[e] = "-", !.pc[t] = "ret",
                       !.ok[t] = IF p.call[t] = "take_call" THEN "done" ELSE @]}
        ELSE IF at = "ret" THEN
            {[p EXCEPT !.destroyed = p.destroyed \/ p.call[t] = "drop",
                       !.call[t] = "-", !.pc[t] = "idle", !.ptr[t] = Null,
                       !.old_ptr[t] = Null, !.bx[t] = Null, !.mode[t] = "-",
                       !.ok[t] = "-", !.fed[t] = <<>>]}
        ELSE {}

\* thread t takes a step that leads to common state q: the next step of its
\* call, or from idle the start of the call q is in
StepTo(t, q) ==
    /\ IF pc[t] # "idle"
         THEN \/ Step(t)
              \/ put_return(t) \/ take_call_return(t) \/ drop_return(t)
              \/ args_put_return(t) \/ args_take_call_return(t)
              \/ args_drop_return(t)
         ELSE \/ /\ q.call[t] = "put"
                 /\ \/ put_alloc(t, q.action[q.nextEnv])
                    \/ args_put_alloc(t, q.action[q.nextEnv])
              \/ /\ q.call[t] = "take_call"
                 /\ \/ take_call_swap(t)
                    \/ \E x \in Inputs(t) : args_take_call_swap(t, x)
              \/ /\ q.call[t] = "drop"
                 /\ drop_begin(t) \/ args_drop_begin(t)
    /\ Common' = q

\* C18: the no-argument cell and the input/output cell are the same machine
\* once the values passing through the overlay are left out (none pass when
\* input and output are the unit type): whichever the cell's kind, every step
\* of a thread is a step of that one machine, and every step of the machine is
\* a step the thread can take. So the same operations in the same interleaving
\* lead both kinds through the same slot, the same invoked, disposed and freed
\* envelopes, and the same verdict of each take_call (true exactly when Ok).
C18_OneMachine ==
    /\ [](LET p == Common IN
            \A t \in Threads : \A q \in Machine(p, t) : ENABLED StepTo(t, q))
    /\ [][LET p == Common IN
            \E t \in Threads :
                obs'.steps[t] # obs.steps[t] /\ Common' \in Machine(p, t)]_vars

\* C18 witness: in the input/output cell a take_call is about to return Ok
\* after a put has disposed a displaced callback
C18_Witness ==
    \E t \in Threads : \E e \in Envs :
        /\ IsArgs /\ AtReturn(t, "take_call")
        /\ ret[t].kind = "Ok" /\ Common.ok[t] = "done"
        /\ disposed[e] = 1


\* ------------------------------------------- claims about put's two halves
\* put of thread t is past its exchange and has not returned: the displaced
\* envelope, if any, is waiting to be disposed, being disposed or being freed
Disposing(t) ==
    call[t] = "put" /\ pc[t] \in {"drop_raw", "fn_ptr_impl", "free"}
\* thread u calls take_call and its exchange returns envelope e
TakeGets(u, e) ==
    /\ take_call_swap(u) \/ \E x \in Inputs(u) : args_take_call_swap(u, x)
    /\ ptr'[u] = e

\* C19: from put's exchange on, so during the whole disposal of the displaced
\* callback, the slot does not hold the displaced envelope, and the new
\* envelope has been installed: it is in the slot, where any idle thread's
\* take_call would claim it, or an exchange has already claimed it; the
\* displaced callback is not touched before that.
C19_InstallBeforeDispose ==
    \A t \in Threads : Disposing(t) =>
        /\ ptr[t] \in obs.installed
        /\ slot = ptr[t] \/ ptr[t] \in obs.claimed
        /\ old_ptr[t] # Null =>
              /\ slot # old_ptr[t]
              /\ old_ptr[t] \in obs.claimed
              /\ pc[t] = "drop_raw" =>
                    disposed[old_ptr[t]] = 0 /\ freed[old_ptr[t]] = 0
        /\ slot = ptr[t] =>
              \A u \in Threads : pc[u] = "idle" => ENABLED TakeGets(u, ptr[t])

\* C19 witness: a put is about to drop the callback it displaced, and the
\* callback it installed has already been invoked by another thread's
\* take_call
C19_Witness ==
    \E t \in Threads :
        /\ Disposing(t) /\ pc[t] = "fn_ptr_impl"
        /\ old_ptr[t] # Null /\ disposed[old_ptr[t]] = 0
        /\ invoked[ptr[t]] = 1

=============================================================================
